---- MODULE Spec2Model ----
(***************************************************************************)
(* Model of the Lambda entry points of sagemaker-deployment-construct:     *)
(*   codes/lambda/appconfig/sync_s3_to_appconfig.py      (sync)            *)
(*   codes/lambda/appconfig/deploy_config.py             (deploy_config)   *)
(*   codes/lambda/appconfig/parameter-fetcher/handler.py (fetch)           *)
(*   codes/lambda/trigger_model_training.py              (train)           *)
(* One invocation runs at a time; each external call of a handler is one   *)
(* step whose response is chosen by the environment.                       *)
(***************************************************************************)
EXTENDS Integers, Sequences, FiniteSets, TLC

VARIABLES
    handler,          \* entry point being invoked ("none" when idle)
    event,            \* the event mapping: a function from the keys present
    env,              \* os.environ: a function from the variables that are set
    pc,               \* position inside the running handler
    result,           \* what the invocation returned (or raised)
    calls,            \* external calls made so far by this invocation, in order
    config_json,      \* sync: the document to publish
    model_config,     \* sync: the fallback base document
    training_config,  \* sync: the fallback training document
    version_number,   \* VersionNumber of this invocation's publish call
    deployment_id,    \* DeploymentNumber of this invocation's start_deployment
    status,           \* sync: last DeploymentState observed ("none" before)
    elapsed,          \* sync: time.time() - start_time, in seconds
    config_content,   \* deploy_config: the bytes read from the object store;
                      \* fetch: the decoded configuration
    next_version,     \* train: the computed output version
    invocations,      \* number of invocations started so far
    objects,          \* object store: the keys under each (bucket, prefix) listed so far
    other,            \* the locals of a concurrent invocation that is not stepping
    live              \* distribution service: the content deployed, once it is known

inputs == <<handler, event, env, invocations>>
syncLocals == <<config_json, model_config, training_config, status, elapsed>>
deployLocals == <<config_content>>
trainLocals == <<next_version>>
shared == <<objects, other, live>>

vars == <<inputs, shared, pc, result, calls, version_number, deployment_id,
          syncLocals, deployLocals, trainLocals>>

-----------------------------------------------------------------------------
(* Bounds of the model *)

MaxInvocations == 1   \* invocations per behaviour
MaxSlow == 1          \* a status call takes 0..MaxSlow slow periods
SlowCall == 100       \* seconds in one slow period
MaxVersion == 2       \* version numbers the distribution service hands out
MaxDeployment == 1    \* deployment numbers the distribution service hands out

-----------------------------------------------------------------------------
(* JSON values as Python sees them after json.loads *)

Null == [t |-> "null"]
Num(n) == [t |-> "num", n |-> n]
Str(s) == [t |-> "str", s |-> s]
List(l) == [t |-> "list", l |-> l]
Obj(f) == [t |-> "obj", o |-> f]

EmptyObj == Obj([k \in {} |-> Null])

\* str(n) of an integer: its decimal text
PyStr(n) == [t |-> "str", decimal |-> n]

\* Python truthiness, as used by `not x`, all([...]) and `if x:`
Truthy(v) ==
    CASE v.t = "null" -> FALSE
      [] v.t = "num"  -> v.n # 0
      [] v.t = "str"  -> v.s # ""
      [] v.t = "list" -> Len(v.l) > 0
      [] v.t = "obj"  -> DOMAIN v.o # {}
      [] v.t = "bool" -> v.b

\* dict.get(k, d) on a mapping held as a function from the keys present
Get(m, k, d) == IF k \in DOMAIN m THEN m[k] ELSE d

\* os.environ.get(name): the value, or None when the variable is not set
EnvGet(e, name) == Get(e, name, Null)

\* The strings that occur as JSON string values, and Python's substring test on them
IsSubstring(a, b) ==
    \/ a = b
    \/ a = ""
    \/ a = "training" /\ b = "pretraining"

\* `k in v` for a string k, per type of v; "TypeError" when v is not a container
PyIn(k, v) ==
    CASE v.t = "obj"  -> [exc |-> "none", b |-> k \in DOMAIN v.o]
      [] v.t = "list" -> [exc |-> "none", b |-> \E i \in 1..Len(v.l) : v.l[i] = Str(k)]
      [] v.t = "str"  -> [exc |-> "none", b |-> IsSubstring(k, v.s)]
      [] OTHER        -> [exc |-> "TypeError", b |-> FALSE]

\* `v[k]` for a string k: only a dict can be indexed by a string
PyIndex(v, k) ==
    IF v.t = "obj"
    THEN IF k \in DOMAIN v.o THEN [exc |-> "none", v |-> v.o[k]]
                             ELSE [exc |-> "KeyError", v |-> Null]
    ELSE [exc |-> "TypeError", v |-> Null]

\* len(v): defined for containers and strings only
PyLenRaises(v) == v.t \in {"null", "num", "bool"}

\* list(v.keys()): the top-level keys of a dict, AttributeError otherwise
PyKeys(v) ==
    IF v.t = "obj" THEN [exc |-> "none", keys |-> DOMAIN v.o]
                   ELSE [exc |-> "AttributeError", keys |-> {}]

-----------------------------------------------------------------------------
(* dict.update and the fallback merge of sync_s3_to_appconfig.py *)

\* A list element that dict.update accepts as a (key, value) pair
IsPair(e) == e.t = "list" /\ Len(e.l) = 2 /\ e.l[1].t = "str"

RECURSIVE UpdateFromPairs(_, _)
UpdateFromPairs(f, l) ==
    IF l = <<>> THEN f
    ELSE LET k == l[1].l[1].s
             g == [x \in DOMAIN f \cup {k} |-> IF x = k THEN l[1].l[2] ELSE f[x]]
         IN  UpdateFromPairs(g, Tail(l))

\* an update that keeps the target's value on a key conflict
DictUpdateKeepExisting(target, arg) ==
    IF target.t = "obj" /\ arg.t = "obj"
    THEN [exc |-> "none",
          v |-> Obj([k \in DOMAIN target.o \cup DOMAIN arg.o |->
                       IF k \in DOMAIN target.o THEN target.o[k] ELSE arg.o[k]])]
    ELSE [exc |-> "TypeError", v |-> Null]

\* target.update(arg): shallow overwrite of target's keys by arg's
DictUpdate(target, arg) ==
    CASE target.t # "obj" -> [exc |-> "AttributeError", v |-> Null]
      [] target.t = "obj" /\ arg.t = "obj" ->
            [exc |-> "none",
             v |-> Obj([k \in DOMAIN target.o \cup DOMAIN arg.o |->
                          IF k \in DOMAIN arg.o THEN arg.o[k] ELSE target.o[k]])]
      [] target.t = "obj" /\ arg.t = "list" ->
            IF \A i \in 1..Len(arg.l) : IsPair(arg.l[i])
            THEN [exc |-> "none", v |-> Obj(UpdateFromPairs(target.o, arg.l))]
            ELSE [exc |-> "TypeError", v |-> Null]
      [] target.t = "obj" /\ arg.t = "str" ->
            IF arg.s = "" THEN [exc |-> "none", v |-> target]
                          ELSE [exc |-> "ValueError", v |-> Null]
      [] OTHER -> [exc |-> "TypeError", v |-> Null]

\* training_config.get('Training', {})
TrainingSection(doc) ==
    IF doc.t = "obj"
    THEN [exc |-> "none", v |-> Get(doc.o, "Training", EmptyObj)]
    ELSE [exc |-> "AttributeError", v |-> Null]

\* Lines 75-78: the merged document, or the exception the merge raises
Merge(mc, tc) ==
    LET in1 == PyIn("modelParameters", mc) IN
    IF in1.exc # "none" THEN [exc |-> in1.exc, v |-> Null]
    ELSE IF ~in1.b THEN [exc |-> "none", v |-> mc]
    ELSE
    LET mp == PyIndex(mc, "modelParameters") IN
    IF mp.exc # "none" THEN [exc |-> mp.exc, v |-> Null]
    ELSE
    LET in2 == PyIn("training", mp.v) IN
    IF in2.exc # "none" THEN [exc |-> in2.exc, v |-> Null]
    ELSE IF ~in2.b THEN [exc |-> "none", v |-> mc]
    ELSE
    LET tr == PyIndex(mp.v, "training") IN
    IF tr.exc # "none" THEN [exc |-> tr.exc, v |-> Null]
    ELSE IF tr.v.t # "obj" THEN [exc |-> "AttributeError", v |-> Null]
    ELSE
    LET sec == TrainingSection(tc) IN
    IF sec.exc # "none" THEN [exc |-> sec.exc, v |-> Null]
    ELSE
    LET upd == DictUpdate(tr.v, sec.v) IN
    IF upd.exc # "none" THEN [exc |-> upd.exc, v |-> Null]
    ELSE [exc |-> "none",
          v |-> Obj([mc.o EXCEPT !["modelParameters"] =
                       Obj([mp.v.o EXCEPT !["training"] = upd.v])])]

-----------------------------------------------------------------------------
(* The documents the object store may hold *)

GoodBase == Obj([modelParameters |-> Obj([training |-> Obj([lr |-> Num(1), epochs |-> Num(2)])]),
                 name |-> Str("gpu")])
NoTrainingBase == Obj([modelParameters |-> EmptyObj])
NoModelParameters == Obj([name |-> Str("gpu")])
StringModelParameters == Obj([modelParameters |-> Str("pretraining")])
NullTrainingBase == Obj([modelParameters |-> Obj([training |-> Null])])
GoodTraining == Obj([Training |-> Obj([lr |-> Num(3), batch |-> Num(4)])])
EmptyTraining == Obj([Training |-> EmptyObj])
NullTraining == Obj([Training |-> Null])
ListTraining == Obj([Training |-> List(<<Num(1)>>)])
ListDoc == List(<<Str("modelParameters")>>)
NumberName == Obj([name |-> Num(7)])
MixedDoc == Obj([items |-> List(<<Num(1), Null, EmptyObj>>), name |-> Str("")])

\* what may be stored under the primary key, and under the two fallback keys
PrimaryDocs == {GoodBase, MixedDoc, ListDoc, Num(7)}
BaseDocs == {GoodBase, NoTrainingBase, NoModelParameters,
             StringModelParameters, NullTrainingBase, ListDoc, Num(7)}
TrainingDocs == {GoodTraining, EmptyTraining, NullTraining, ListTraining,
                 NoModelParameters, ListDoc}
Docs == PrimaryDocs \cup BaseDocs \cup TrainingDocs

-----------------------------------------------------------------------------
(* Responses of the external services *)

NoSuchKey == "NoSuchKey"
ClientErrors == {NoSuchKey, "AccessDenied", "ServiceError"}       \* botocore ClientError
S3Errors == {NoSuchKey, "AccessDenied", "EndpointConnectionError"}
AppConfigErrors == {"ServiceError"}

\* A JSON text, as a tree of its tokens: an object is the sequence of its
\* name/value members as written, an array the sequence of its elements
RECURSIVE KeySeq(_)
KeySeq(S) ==
    IF S = {} THEN <<>>
    ELSE LET k == CHOOSE x \in S : TRUE IN <<k>> \o KeySeq(S \ {k})

\* json.dumps that writes every nested object as {}
RECURSIVE DumpsShallow(_)
DumpsShallow(v) ==
    CASE v.t = "null" -> [j |-> "null"]
      [] v.t = "num"  -> [j |-> "num", d |-> v.n]
      [] v.t = "str"  -> [j |-> "str", c |-> v.s]
      [] v.t = "bool" -> [j |-> "bool", b |-> v.b]
      [] v.t = "list" -> [j |-> "arr", e |-> [i \in 1..Len(v.l) |-> DumpsShallow(v.l[i])]]
      [] v.t = "obj"  ->
            LET ks == KeySeq(DOMAIN v.o) IN
            [j |-> "obj",
             m |-> [i \in 1..Len(ks) |->
                      [name |-> ks[i],
                       text |-> IF v.o[ks[i]].t = "obj" THEN [j |-> "obj", m |-> <<>>]
                                ELSE DumpsShallow(v.o[ks[i]])]]]

\* json.dumps(v): one member per key of a dict, one element per item of a list
RECURSIVE Dumps(_)
Dumps(v) ==
    CASE v.t = "null" -> [j |-> "null"]
      [] v.t = "num"  -> [j |-> "num", d |-> v.n]
      [] v.t = "str"  -> [j |-> "str", c |-> v.s]
      [] v.t = "bool" -> [j |-> "bool", b |-> v.b]
      [] v.t = "list" -> [j |-> "arr", e |-> [i \in 1..Len(v.l) |-> Dumps(v.l[i])]]
      [] v.t = "obj"  ->
            LET ks == KeySeq(DOMAIN v.o) IN
            [j |-> "obj",
             m |-> [i \in 1..Len(ks) |-> [name |-> ks[i], text |-> Dumps(v.o[ks[i]])]]]

\* json.loads(x): a dict keeps the last member written for a name
RECURSIVE Loads(_)
Loads(x) ==
    CASE x.j = "null" -> Null
      [] x.j = "num"  -> Num(x.d)
      [] x.j = "str"  -> Str(x.c)
      [] x.j = "bool" -> [t |-> "bool", b |-> x.b]
      [] x.j = "arr"  -> List([i \in 1..Len(x.e) |-> Loads(x.e[i])])
      [] x.j = "obj"  ->
            LET names == {x.m[i].name : i \in 1..Len(x.m)}
                last(k) == CHOOSE i \in 1..Len(x.m) :
                              /\ x.m[i].name = k
                              /\ \A i2 \in (i + 1)..Len(x.m) : x.m[i2].name # k
            IN  Obj([k \in names |-> Loads(x.m[last(k)].text)])

\* Body of an object: bytes that are not UTF-8, text that is not JSON, or a JSON text
BadUtf8 == [k |-> "bytes"]
BadJson == [k |-> "text"]
JsonText(v) == [k |-> "json", text |-> Dumps(v)]
Contents(docs) == {BadUtf8, BadJson} \cup {JsonText(v) : v \in docs}

\* get_object either fails or returns a body holding one of `docs`
S3Responses(docs) ==
    [err : S3Errors, body : {BadUtf8}] \cup [err : {"none"}, body : Contents(docs)]

\* response['Body'].read().decode('utf-8') followed by json.loads
LoadJson(resp) ==
    CASE resp.err # "none"    -> [exc |-> resp.err, v |-> Null]
      [] resp.err = "none" /\ resp.body = BadUtf8 -> [exc |-> "UnicodeDecodeError", v |-> Null]
      [] resp.err = "none" /\ resp.body = BadJson -> [exc |-> "JSONDecodeError", v |-> Null]
      [] OTHER -> [exc |-> "none", v |-> Loads(resp.body.text)]

TerminalStates == {"COMPLETE", "FAILED", "ROLLED_BACK"}
NonTerminalStates == {"DEPLOYING"}
DeploymentStates == TerminalStates \cup NonTerminalStates

\* Seconds a status call may take
Latencies == {SlowCall * i : i \in 0..MaxSlow}

-----------------------------------------------------------------------------
(* Results *)

NoResult == [statusCode |-> 0]
Bool(b) == [t |-> "bool", b |-> b]

MissingParameters(missing) ==
    [statusCode |-> 400,
     body |-> [msg |-> "Missing required parameters", missing |-> missing]]

\* a handler without the outer except: the exception leaves it
UncaughtPropagates(e) == [statusCode |-> -1, raised |-> e]

\* the outer `except Exception as e` of a handler: body is str(e)
Uncaught(e) == [statusCode |-> 500, body |-> [msg |-> "", cause |-> e]]

\* entries of the call log: the call, and the exception the step raised ("none" if none)
Call(api, exc) == [api |-> api, exc |-> exc]
GetObject(key, exc) == [api |-> "s3.get_object", key |-> key, exc |-> exc]
CreateVersion(content, returned, exc) ==
    [api |-> "appconfig.create_hosted_configuration_version", content |-> content,
     returned |-> returned, exc |-> exc]

\* a start_deployment that always asks for the highest version
StartDeploymentLatest(version, returned, exc) ==
    [api |-> "appconfig.start_deployment", version |-> PyStr(MaxVersion),
     returned |-> returned, exc |-> exc]

\* the call with the ConfigurationVersion passed and the DeploymentNumber returned
StartDeployment(version, returned, exc) ==
    [api |-> "appconfig.start_deployment", version |-> version,
     returned |-> returned, exc |-> exc]
GetDeployment(deployment, exc) ==
    [api |-> "appconfig.get_deployment", deployment |-> deployment, exc |-> exc]

-----------------------------------------------------------------------------
(* sync_s3_to_appconfig.handler *)

max_wait_time == 300
poll_sleep == 10

DefaultKey == "configs/model-config.json"
BaseKey == "configs/model-config.json"
TrainingKey == "configs/model-training-config.json"

sync_bucket == Get(event, "bucket", EnvGet(env, "CONFIG_BUCKET"))
sync_key == Get(event, "key", Str(DefaultKey))

\* the flag with False for its default
wait_for_deployment_default_false == Get(event, "wait_for_deployment", Bool(FALSE))

\* line 34
wait_for_deployment == Get(event, "wait_for_deployment", Bool(TRUE))

IfMissing(v, name) == IF ~Truthy(v) THEN <<name>> ELSE <<>>

\* the list built without the bucket test
SyncMissingNoBucket ==
    IfMissing(EnvGet(env, "APPLICATION_ID"), "APPLICATION_ID")
    \o IfMissing(EnvGet(env, "ENVIRONMENT_ID"), "ENVIRONMENT_ID")
    \o IfMissing(EnvGet(env, "CONFIGURATION_PROFILE_ID"), "CONFIGURATION_PROFILE_ID")
    \o IfMissing(EnvGet(env, "DEPLOYMENT_STRATEGY_ID"), "DEPLOYMENT_STRATEGY_ID")

\* lines 38-43
SyncMissing ==
    IfMissing(EnvGet(env, "APPLICATION_ID"), "APPLICATION_ID")
    \o IfMissing(EnvGet(env, "ENVIRONMENT_ID"), "ENVIRONMENT_ID")
    \o IfMissing(EnvGet(env, "CONFIGURATION_PROFILE_ID"), "CONFIGURATION_PROFILE_ID")
    \o IfMissing(EnvGet(env, "DEPLOYMENT_STRATEGY_ID"), "DEPLOYMENT_STRATEGY_ID")
    \o IfMissing(sync_bucket, "bucket/CONFIG_BUCKET")

SyncAllPresent ==
    /\ Truthy(EnvGet(env, "APPLICATION_ID"))
    /\ Truthy(EnvGet(env, "ENVIRONMENT_ID"))
    /\ Truthy(EnvGet(env, "CONFIGURATION_PROFILE_ID"))
    /\ Truthy(EnvGet(env, "DEPLOYMENT_STRATEGY_ID"))
    /\ Truthy(sync_bucket)

Return(r) == /\ result' = r
             /\ pc' = "done"

\* lines 25-50
SyncValidate ==
    /\ pc = "sync_validate"
    /\ IF ~SyncAllPresent
       THEN Return(MissingParameters(SyncMissing))
       ELSE pc' = "sync_load" /\ result' = result
    /\ UNCHANGED <<inputs, shared, calls, version_number, deployment_id, syncLocals,
                   deployLocals, trainLocals>>

\* every ClientError taken for a missing key
IsNotFoundAnyClientError(e) == e \in ClientErrors

\* line 62: e.response['Error']['Code'] == 'NoSuchKey'
IsNotFound(e) == e = NoSuchKey

\* what lines 57-60 raise for a response: the load, then len(config_json)
PrimaryExc(resp) ==
    IF LoadJson(resp).exc # "none" THEN LoadJson(resp).exc
    ELSE IF PyLenRaises(LoadJson(resp).v) THEN "TypeError"
    ELSE "none"

\* lines 56-63 and 86-91: the primary load
SyncLoad ==
    /\ pc = "sync_load"
    /\ \E resp \in S3Responses(PrimaryDocs) :
         LET exc == PrimaryExc(resp) IN
         /\ calls' = Append(calls, GetObject(sync_key.s, exc))
         /\ IF exc = "none"
            THEN /\ config_json' = LoadJson(resp).v
                 /\ pc' = "sync_publish"
                 /\ result' = result
            ELSE IF exc \in ClientErrors /\ IsNotFound(exc)
            THEN /\ pc' = "sync_load_base"
                 /\ UNCHANGED <<result, config_json>>
            ELSE IF exc \in ClientErrors
            THEN /\ Return([statusCode |-> 500,
                            body |-> [msg |-> "Error retrieving configuration from S3",
                                      cause |-> exc]])
                 /\ UNCHANGED config_json
            ELSE /\ Return(Uncaught(exc))
                 /\ UNCHANGED config_json
    /\ UNCHANGED <<inputs, shared, model_config, training_config, version_number,
                   deployment_id, status, elapsed, deployLocals, trainLocals>>

MergeError(e) ==
    [statusCode |-> 500, body |-> [msg |-> "Error merging configurations", cause |-> e]]

\* a failed base load replaced by an empty configuration
SyncLoadBaseDefaultEmpty ==
    /\ pc = "sync_load_base"
    /\ \E resp \in S3Responses(BaseDocs) :
         LET loaded == LoadJson(resp) IN
         /\ calls' = Append(calls, GetObject(BaseKey, loaded.exc))
         /\ model_config' = IF loaded.exc = "none" THEN loaded.v ELSE EmptyObj
         /\ pc' = "sync_load_training"
         /\ result' = result
    /\ UNCHANGED <<inputs, shared, config_json, training_config, version_number,
                   deployment_id, status, elapsed, deployLocals, trainLocals>>

\* lines 65-68: the fallback base document
SyncLoadBase ==
    /\ pc = "sync_load_base"
    /\ \E resp \in S3Responses(BaseDocs) :
         LET loaded == LoadJson(resp) IN
         /\ calls' = Append(calls, GetObject(BaseKey, loaded.exc))
         /\ IF loaded.exc = "none"
            THEN /\ model_config' = loaded.v
                 /\ pc' = "sync_load_training"
                 /\ result' = result
            ELSE /\ Return(MergeError(loaded.exc))
                 /\ UNCHANGED model_config
    /\ UNCHANGED <<inputs, shared, config_json, training_config, version_number,
                   deployment_id, status, elapsed, deployLocals, trainLocals>>

\* lines 70-85: the fallback training document and the merge; update() changes
\* model_config in place and config_json is that same object
SyncLoadTraining ==
    /\ pc = "sync_load_training"
    /\ \E resp \in S3Responses(TrainingDocs) :
         LET loaded == LoadJson(resp)
             merged == Merge(model_config, loaded.v)
         IN
         /\ calls' = Append(calls, GetObject(TrainingKey, loaded.exc))
         /\ IF loaded.exc # "none"
            THEN /\ Return(MergeError(loaded.exc))
                 /\ UNCHANGED <<config_json, model_config, training_config>>
            ELSE IF merged.exc # "none"
            THEN /\ Return(MergeError(merged.exc))
                 /\ training_config' = loaded.v
                 /\ UNCHANGED <<config_json, model_config>>
            ELSE /\ training_config' = loaded.v
                 /\ model_config' = merged.v
                 /\ config_json' = merged.v
                 /\ pc' = "sync_publish"
                 /\ result' = result
    /\ UNCHANGED <<inputs, shared, version_number, deployment_id, status, elapsed,
                   deployLocals, trainLocals>>

\* a publish that writes nested objects as {}
ContentShallow(doc) == [k |-> "json", text |-> DumpsShallow(doc)]

\* line 102: Content=json.dumps(config_json).encode('utf-8')
Content(doc) == JsonText(doc)

\* a publish whose failure is swallowed
SyncPublishSwallow ==
    /\ pc = "sync_publish"
    /\ training_config' = Null
    /\ \/ \E v \in 1..MaxVersion :
            /\ calls' = Append(calls, CreateVersion(Content(config_json), v, "none"))
            /\ version_number' = v
       \/ \E e \in AppConfigErrors :
            /\ calls' = Append(calls, CreateVersion(Content(config_json), 0, e))
            /\ UNCHANGED version_number
    /\ pc' = "sync_start_deployment"
    /\ UNCHANGED <<inputs, shared, result, deployment_id, config_json, model_config, status,
                   elapsed, deployLocals, trainLocals>>

\* a publish that tries once more after a failure
SyncPublishRetry ==
    /\ pc = "sync_publish"
    /\ training_config' = Null
    /\ \/ \E v \in 1..MaxVersion :
            /\ calls' = Append(calls, CreateVersion(Content(config_json), v, "none"))
            /\ version_number' = v
            /\ pc' = "sync_start_deployment"
            /\ result' = result
       \/ \E e \in AppConfigErrors :
            /\ calls' = Append(calls, CreateVersion(Content(config_json), 0, e))
            /\ IF calls # <<>> /\ calls[Len(calls)].api = "s3.get_object"
               THEN pc' = "sync_publish" /\ result' = result
               ELSE Return(Uncaught(e))
            /\ UNCHANGED version_number
    /\ UNCHANGED <<inputs, shared, deployment_id, config_json, model_config, status, elapsed,
                   deployLocals, trainLocals>>

\* lines 94-106: create_hosted_configuration_version of json.dumps(config_json).
\* training_config is not read after the merge, so the model forgets it here.
SyncPublish ==
    /\ pc = "sync_publish"
    /\ training_config' = Null
    /\ \/ \E v \in 1..MaxVersion :
            /\ calls' = Append(calls, CreateVersion(Content(config_json), v, "none"))
            /\ version_number' = v
            /\ pc' = "sync_start_deployment"
            /\ result' = result
       \/ \E e \in AppConfigErrors :
            /\ calls' = Append(calls, CreateVersion(Content(config_json), 0, e))
            /\ Return(Uncaught(e))
            /\ UNCHANGED version_number
    /\ UNCHANGED <<inputs, shared, deployment_id, config_json, model_config, status, elapsed,
                   deployLocals, trainLocals>>

\* lines 108-126: start_deployment, then the wait flag and start_time
SyncStartDeployment ==
    /\ pc = "sync_start_deployment"
    /\ \/ \E d \in 1..MaxDeployment :
            /\ calls' = Append(calls, StartDeployment(PyStr(version_number), d, "none"))
            /\ deployment_id' = d
            /\ pc' = IF Truthy(wait_for_deployment) THEN "sync_loop" ELSE "sync_return"
            /\ result' = result
       \/ \E e \in AppConfigErrors :
            /\ calls' = Append(calls, StartDeployment(PyStr(version_number), 0, e))
            /\ Return(Uncaught(e))
            /\ UNCHANGED deployment_id
    /\ elapsed' = 0
    /\ UNCHANGED <<inputs, shared, config_json, model_config, training_config, version_number,
                   status, deployLocals, trainLocals>>

\* the loop test with <= for <
SyncLoopInclusive ==
    /\ pc = "sync_loop"
    /\ pc' = IF elapsed <= max_wait_time THEN "sync_get_deployment" ELSE "sync_return"
    /\ UNCHANGED <<inputs, shared, result, calls, version_number, deployment_id,
                   syncLocals, deployLocals, trainLocals>>

\* the loop raising when the ceiling is reached
SyncLoopTimeoutError ==
    /\ pc = "sync_loop"
    /\ IF elapsed < max_wait_time
       THEN pc' = "sync_get_deployment" /\ result' = result
       ELSE Return(Uncaught("TimeoutError"))
    /\ UNCHANGED <<inputs, shared, calls, version_number, deployment_id,
                   syncLocals, deployLocals, trainLocals>>

\* line 128: while time.time() - start_time < max_wait_time
SyncLoop ==
    /\ pc = "sync_loop"
    /\ pc' = IF elapsed < max_wait_time THEN "sync_get_deployment" ELSE "sync_return"
    /\ UNCHANGED <<inputs, shared, result, calls, version_number, deployment_id,
                   syncLocals, deployLocals, trainLocals>>

\* only FAILED treated as a failure
FailedStatesNoRollback == {"FAILED"}

\* line 141
FailedStates == {"FAILED", "ROLLED_BACK"}

\* a failed deployment reported as a success
DeploymentFailedAs200(s) ==
    [statusCode |-> 200, body |-> [msg |-> "Deployment failed with status", status |-> s]]

\* lines 143-146
DeploymentFailed(s) ==
    [statusCode |-> 500, body |-> [msg |-> "Deployment failed with status", status |-> s]]

\* lines 129-146: one status call and the decision on it
SyncGetDeployment ==
    /\ pc = "sync_get_deployment"
    /\ \E lat \in Latencies : elapsed' = elapsed + lat
    /\ \/ \E s \in DeploymentStates :
            /\ calls' = Append(calls, GetDeployment(deployment_id, "none"))
            /\ status' = s
            /\ live' = IF s = "COMPLETE" THEN Content(config_json) ELSE live
            /\ IF s = "COMPLETE"
               THEN pc' = "sync_return" /\ result' = result
               ELSE IF s \in FailedStates
               THEN Return(DeploymentFailed(s))
               ELSE pc' = "sync_sleep" /\ result' = result
       \/ \E e \in AppConfigErrors :
            /\ calls' = Append(calls, GetDeployment(deployment_id, e))
            /\ Return(Uncaught(e))
            /\ UNCHANGED <<status, live>>
    /\ UNCHANGED <<inputs, objects, other, config_json, model_config, training_config,
                   version_number, deployment_id, deployLocals, trainLocals>>

\* line 148: time.sleep(10)
SyncSleep ==
    /\ pc = "sync_sleep"
    /\ calls' = Append(calls, Call("time.sleep", "none"))
    /\ elapsed' = elapsed + poll_sleep
    /\ pc' = "sync_loop"
    /\ UNCHANGED <<inputs, shared, result, config_json, model_config, training_config,
                   version_number, deployment_id, status, deployLocals, trainLocals>>

\* a return that reports no keys
SyncReturnNoKeys ==
    /\ pc = "sync_return"
    /\ LET ks == PyKeys(config_json) IN
       IF ks.exc = "none"
       THEN Return([statusCode |-> 200,
                    body |-> [versionNumber |-> version_number,
                              deploymentNumber |-> deployment_id,
                              configKeys |-> {}]])
       ELSE Return(Uncaught(ks.exc))
    /\ UNCHANGED <<inputs, shared, calls, version_number, deployment_id, syncLocals,
                   deployLocals, trainLocals>>

\* lines 150-157 (and 159-164 when config_json has no keys())
SyncReturn ==
    /\ pc = "sync_return"
    /\ LET ks == PyKeys(config_json) IN
       IF ks.exc = "none"
       THEN Return([statusCode |-> 200,
                    body |-> [versionNumber |-> version_number,
                              deploymentNumber |-> deployment_id,
                              configKeys |-> ks.keys]])
       ELSE Return(Uncaught(ks.exc))
    /\ UNCHANGED <<inputs, shared, calls, version_number, deployment_id, syncLocals,
                   deployLocals, trainLocals>>

Sync == \/ SyncValidate \/ SyncLoad \/ SyncLoadBase \/ SyncLoadTraining
        \/ SyncPublish \/ SyncStartDeployment \/ SyncLoop
        \/ SyncGetDeployment \/ SyncSleep \/ SyncReturn

-----------------------------------------------------------------------------
(* deploy_config.handler *)

DeployRequired == <<"bucket", "key", "application_id", "environment_id",
                    "configuration_profile_id", "deployment_strategy_id">>

\* event.get(p): the value, or None when the key is absent
EventGet(p) == Get(event, p, Null)

\* lines 36-38: [p for p in [...] if not event.get(p)]
DeployMissing == SelectSeq(DeployRequired, LAMBDA p : ~Truthy(EventGet(p)))

\* lines 27-44; nothing here reads os.environ
DeployValidate ==
    /\ pc = "deploy_validate"
    /\ IF \E i \in 1..Len(DeployRequired) : ~Truthy(EventGet(DeployRequired[i]))
       THEN Return(MissingParameters(DeployMissing))
       ELSE pc' = "deploy_load" /\ result' = result
    /\ UNCHANGED <<inputs, shared, calls, version_number, deployment_id, syncLocals,
                   deployLocals, trainLocals>>

\* lines 48-53: the body is read as bytes and never decoded
DeployLoad ==
    /\ pc = "deploy_load"
    /\ \E resp \in S3Responses(PrimaryDocs) :
         /\ calls' = Append(calls, GetObject(EventGet("key").s, resp.err))
         /\ IF resp.err = "none"
            THEN /\ config_content' = resp.body
                 /\ pc' = "deploy_publish"
                 /\ result' = result
            ELSE /\ Return(Uncaught(resp.err))
                 /\ UNCHANGED config_content
    /\ UNCHANGED <<inputs, shared, version_number, deployment_id, syncLocals, trainLocals>>

\* lines 56-67
DeployPublish ==
    /\ pc = "deploy_publish"
    /\ \/ \E v \in 1..MaxVersion :
            /\ calls' = Append(calls, CreateVersion(config_content, v, "none"))
            /\ version_number' = v
            /\ pc' = "deploy_start_deployment"
            /\ result' = result
       \/ \E e \in AppConfigErrors :
            /\ calls' = Append(calls, CreateVersion(config_content, 0, e))
            /\ Return(Uncaught(e))
            /\ UNCHANGED version_number
    /\ UNCHANGED <<inputs, shared, deployment_id, syncLocals, deployLocals, trainLocals>>

\* lines 69-96
DeployStartDeployment ==
    /\ pc = "deploy_start_deployment"
    /\ \/ \E d \in 1..MaxDeployment :
            /\ calls' = Append(calls, StartDeployment(PyStr(version_number), d, "none"))
            /\ deployment_id' = d
            /\ Return([statusCode |-> 200,
                       body |-> [versionNumber |-> version_number,
                                 deploymentNumber |-> d,
                                 contentHash |-> [md5 |-> config_content]]])
       \/ \E e \in AppConfigErrors :
            /\ calls' = Append(calls, StartDeployment(PyStr(version_number), 0, e))
            /\ Return(Uncaught(e))
            /\ UNCHANGED deployment_id
    /\ UNCHANGED <<inputs, shared, version_number, syncLocals, deployLocals, trainLocals>>

Deploy == DeployValidate \/ DeployLoad \/ DeployPublish \/ DeployStartDeployment

-----------------------------------------------------------------------------
(* parameter-fetcher/handler.handler *)

FetchRequired == <<"ApplicationId", "EnvironmentId", "ConfigurationProfileId">>

\* the environment variable documented for each parameter
EnvName(p) ==
    CASE p = "ApplicationId" -> "APPLICATION_ID"
      [] p = "EnvironmentId" -> "ENVIRONMENT_ID"
      [] p = "ConfigurationProfileId" -> "CONFIGURATION_PROFILE_ID"

\* str.upper() of a parameter name
Upper(p) ==
    CASE p = "ApplicationId" -> "APPLICATIONID"
      [] p = "EnvironmentId" -> "ENVIRONMENTID"
      [] p = "ConfigurationProfileId" -> "CONFIGURATIONPROFILEID"

\* the parameter taken from the event only
FetchParamEventOnly(p) == Get(event, p, Null)

\* lines 35-37: event.get(p, os.environ.get(NAME))
FetchParam(p) == Get(event, p, EnvGet(env, EnvName(p)))

\* lines 56-57
FetchMissing ==
    SelectSeq(FetchRequired,
              LAMBDA p : ~Truthy(EventGet(p)) /\ ~Truthy(EnvGet(env, Upper(p))))

default_poll_interval == 30

\* Python floats, in tenths; float('inf') and float('nan') apart
Float(tenths) == [t |-> "float", tenths |-> tenths]
Inf == [t |-> "inf"]
NaN == [t |-> "nan"]

\* float(s) for the strings that occur as poll intervals
FloatOfString(s) ==
    CASE s = "45"  -> [exc |-> "none", v |-> Float(450)]
      [] s = "2.5" -> [exc |-> "none", v |-> Float(25)]
      [] s = "inf" -> [exc |-> "none", v |-> Inf]
      [] s = "nan" -> [exc |-> "none", v |-> NaN]
      [] OTHER     -> [exc |-> "ValueError", v |-> NaN]

\* float(x)
PyFloat(x) ==
    CASE x.t = "num"   -> [exc |-> "none", v |-> Float(10 * x.n)]
      [] x.t = "float" -> [exc |-> "none", v |-> x]
      [] x.t = "inf"   -> [exc |-> "none", v |-> x]
      [] x.t = "nan"   -> [exc |-> "none", v |-> x]
      [] x.t = "bool"  -> [exc |-> "none", v |-> Float(IF x.b THEN 10 ELSE 0)]
      [] x.t = "str"   -> FloatOfString(x.s)
      [] OTHER         -> [exc |-> "TypeError", v |-> NaN]

\* int(f) of a float: truncation towards zero; infinity and NaN have no integer
PyInt(f) ==
    CASE f.t = "inf" -> [exc |-> "OverflowError", n |-> 0]
      [] f.t = "nan" -> [exc |-> "ValueError", n |-> 0]
      [] OTHER -> [exc |-> "none",
                   n |-> IF f.tenths >= 0 THEN f.tenths \div 10
                                          ELSE -((-f.tenths) \div 10)]

\* lines 41-47: int(float(x)), 30 when the conversion raises ValueError or
\* TypeError; any other exception leaves the block
PollInterval ==
    IF "RequiredMinimumPollIntervalInSeconds" \notin DOMAIN event
    THEN [exc |-> "none", n |-> default_poll_interval]
    ELSE LET f == PyFloat(event["RequiredMinimumPollIntervalInSeconds"]) IN
         IF f.exc \in {"ValueError", "TypeError"}
         THEN [exc |-> "none", n |-> default_poll_interval]
         ELSE LET i == PyInt(f.v) IN
              IF i.exc \in {"ValueError", "TypeError"}
              THEN [exc |-> "none", n |-> default_poll_interval]
              ELSE i

\* lines 35-63
FetchValidate ==
    /\ pc = "fetch_validate"
    /\ IF PollInterval.exc # "none"
       THEN Return(Uncaught(PollInterval.exc))
       ELSE IF \E i \in 1..Len(FetchRequired) : ~Truthy(FetchParam(FetchRequired[i]))
       THEN Return(MissingParameters(FetchMissing))
       ELSE pc' = "fetch_start_session" /\ result' = result
    /\ UNCHANGED <<inputs, shared, calls, version_number, deployment_id, syncLocals,
                   deployLocals, trainLocals>>

StartSession(interval, exc) ==
    [api |-> "appconfig.start_configuration_session", poll_interval |-> interval,
     exc |-> exc]

\* lines 69-74
FetchStartSession ==
    /\ pc = "fetch_start_session"
    /\ \/ /\ calls' = Append(calls, StartSession(PollInterval.n, "none"))
          /\ pc' = "fetch_get_configuration"
          /\ result' = result
       \/ \E e \in AppConfigErrors :
            /\ calls' = Append(calls, StartSession(PollInterval.n, e))
            /\ Return(Uncaught(e))
    /\ UNCHANGED <<inputs, shared, version_number, deployment_id, syncLocals,
                   deployLocals, trainLocals>>

\* str.split('.') on the parameter keys of the model
Split(k) ==
    CASE k = "modelParameters.training.lr" -> <<"modelParameters", "training", "lr">>
      [] k = "name.first" -> <<"name", "first">>
      [] OTHER -> <<k>>

\* lines 93-102: [found, value] of walking keys down from value
RECURSIVE Traverse(_, _)
Traverse(value, keys) ==
    IF keys = <<>> THEN [exc |-> "none", found |-> TRUE, v |-> value]
    ELSE LET isin == PyIn(keys[1], value) IN
         IF isin.exc # "none" THEN [exc |-> isin.exc, found |-> FALSE, v |-> Null]
         ELSE IF ~isin.b THEN [exc |-> "none", found |-> FALSE, v |-> Null]
         ELSE LET next == PyIndex(value, keys[1]) IN
              IF next.exc # "none" THEN [exc |-> next.exc, found |-> FALSE, v |-> Null]
              ELSE Traverse(next.v, Tail(keys))

NotFound(k) ==
    [statusCode |-> 404, body |-> [msg |-> "Parameter not found in configuration",
                                   parameter_key |-> k]]

\* a lookup that ignores the key and answers with an empty configuration
FetchResultWholeOnly(config_content_, parameter_key) ==
    IF PyKeys(config_content_).exc # "none" THEN Uncaught(PyKeys(config_content_).exc)
    ELSE [statusCode |-> 200, Configuration |-> EmptyObj]

\* lines 81-130 on the decoded content
FetchResult(config_content_, parameter_key) ==
    IF PyKeys(config_content_).exc # "none" THEN Uncaught(PyKeys(config_content_).exc)
    ELSE IF ~Truthy(parameter_key)
    THEN [statusCode |-> 200, Configuration |-> config_content_]
    ELSE IF parameter_key.t # "str" THEN Uncaught("TypeError")
    ELSE LET walk == Traverse(config_content_, Split(parameter_key.s)) IN
         IF walk.exc # "none" THEN Uncaught(walk.exc)
         ELSE IF ~walk.found THEN NotFound(parameter_key.s)
         ELSE [statusCode |-> 200, ParameterValue |-> walk.v]

FetchDocs == {GoodBase, NoModelParameters, NumberName, ListDoc}

\* nothing is known yet about what the distribution service has deployed
NotKnown == [k |-> "unknown"]

\* the Content get_configuration can answer with: the deployed content once a
\* deployment was seen to complete, anything before that
Served == IF live = NotKnown THEN Contents(FetchDocs) ELSE {live}

\* the get_configuration call and the Content the service answered with
GetConfiguration(content, exc) ==
    [api |-> "appconfig.get_configuration", content |-> content, exc |-> exc]

\* lines 77-138
FetchGetConfiguration ==
    /\ pc = "fetch_get_configuration"
    /\ \/ \E c \in Served :
            LET loaded == LoadJson([err |-> "none", body |-> c]) IN
            /\ calls' = Append(calls, GetConfiguration(c, loaded.exc))
            /\ IF loaded.exc # "none"
               THEN Return(Uncaught(loaded.exc)) /\ UNCHANGED config_content
               ELSE /\ config_content' = loaded.v
                    /\ Return(FetchResult(loaded.v, EventGet("ParameterKey")))
       \/ \E e \in AppConfigErrors :
            /\ calls' = Append(calls, GetConfiguration(BadUtf8, e))
            /\ Return(Uncaught(e))
            /\ UNCHANGED config_content
    /\ UNCHANGED <<inputs, shared, version_number, deployment_id, syncLocals, trainLocals>>

Fetch == FetchValidate \/ FetchStartSession \/ FetchGetConfiguration

-----------------------------------------------------------------------------
(* trigger_model_training.handler *)

\* an exception that leaves the handler: no mapping is returned
Raised(e) == [statusCode |-> -1, raised |-> e]

DefaultConfigKey == "configs/model-training-config.json"

\* lines 12-13
bucket_name == Get(event, "bucket_name", EnvGet(env, "CONFIG_BUCKET_NAME"))
config_key == Get(event, "config_key", Get(env, "CONFIG_KEY", Str(DefaultConfigKey)))
\* line 59
role_arn == Get(event, "role_arn", EnvGet(env, "SAGEMAKER_ROLE_ARN"))

\* lines 15-16
TrainValidate ==
    /\ pc = "train_validate"
    /\ IF ~Truthy(bucket_name)
       THEN Return(Raised("ValueError"))
       ELSE pc' = "train_load" /\ result' = result
    /\ UNCHANGED <<inputs, shared, calls, version_number, deployment_id, syncLocals,
                   deployLocals, trainLocals>>

TrainParameterKeys == {"dataset", "device", "num_epochs", "batch_size", "embed_dim",
                       "learning_rate", "save_model_path", "dictionary_path"}
TrainResourceKeys == {"instance_type", "instance_count", "volume_size_gb",
                      "max_runtime_seconds"}

ValidTrainConfig ==
    Obj([Training |-> Obj([
        Parameters |-> Obj([k \in TrainParameterKeys |-> Str("p")]),
        Resources |-> Obj([k \in TrainResourceKeys |-> Num(1)]),
        Container |-> Obj([image |-> Str("img")]),
        Output |-> Obj([s3_path_prefix |-> Str("models/output")]),
        JobNamePrefix |-> Str("job")])])

NoOutputTrainConfig ==
    Obj([Training |-> Obj([
        Parameters |-> Obj([k \in TrainParameterKeys |-> Str("p")]),
        Resources |-> Obj([k \in TrainResourceKeys |-> Num(1)]),
        Container |-> Obj([image |-> Str("img")]),
        JobNamePrefix |-> Str("job")])])

NoDatasetTrainConfig ==
    Obj([Training |-> Obj([
        Parameters |-> Obj([k \in TrainParameterKeys \ {"dataset"} |-> Str("p")]),
        Resources |-> Obj([k \in TrainResourceKeys |-> Num(1)]),
        Container |-> Obj([image |-> Str("img")]),
        Output |-> Obj([s3_path_prefix |-> Str("models/output")]),
        JobNamePrefix |-> Str("job")])])

TrainConfigDocs == {ValidTrainConfig, NoOutputTrainConfig, NoDatasetTrainConfig,
                    GoodTraining, ListDoc}

\* v[k1][k2]...: the first exception on the way, or the value
RECURSIVE Path(_, _)
Path(v, keys) ==
    IF keys = <<>> THEN [exc |-> "none", v |-> v]
    ELSE LET step == PyIndex(v, keys[1]) IN
         IF step.exc # "none" THEN step ELSE Path(step.v, Tail(keys))

FirstExc(rs) ==
    IF \E i \in 1..Len(rs) : rs[i].exc # "none"
    THEN rs[CHOOSE i \in 1..Len(rs) :
                /\ rs[i].exc # "none"
                /\ \A j \in 1..(i-1) : rs[j].exc = "none"].exc
    ELSE "none"

\* lines 32-38
ExtractExc(config) ==
    FirstExc(<<Path(config, <<"Training", "Parameters">>),
               Path(config, <<"Training", "Resources">>),
               Path(config, <<"Training", "Container">>),
               Path(config, <<"Training", "Output">>),
               Path(config, <<"Training", "Output", "s3_path_prefix">>)>>)

\* lines 19-38: any failure of the load is logged and re-raised
TrainLoad ==
    /\ pc = "train_load"
    /\ \E resp \in S3Responses(TrainConfigDocs) :
         LET loaded == LoadJson(resp) IN
         /\ calls' = Append(calls, GetObject(config_key.s, loaded.exc))
         /\ IF loaded.exc # "none"
            THEN /\ Return(Raised(loaded.exc))
                 /\ UNCHANGED config_json
            ELSE /\ config_json' = loaded.v
                 /\ IF ExtractExc(loaded.v) # "none"
                    THEN Return(Raised(ExtractExc(loaded.v)))
                    ELSE pc' = "train_list" /\ result' = result
    /\ UNCHANGED <<inputs, shared, version_number, deployment_id, model_config, training_config,
                   status, elapsed, deployLocals, trainLocals>>

\* One '/'-separated segment of an object key: whether it contains the letter v,
\* and what int() makes of the segment without its first character
Seg(name, hasV, numeric, rest) ==
    [name |-> name, hasV |-> hasV, numeric |-> numeric, rest |-> rest]
SegPrefix == Seg("models", FALSE, FALSE, 0)
SegOutput == Seg("output", FALSE, FALSE, 0)
SegV(n) == Seg("v", TRUE, TRUE, n)
SegFile == Seg("model.tar.gz", FALSE, FALSE, 0)
SegEval == Seg("eval", TRUE, FALSE, 0)

OutputKey(n) == <<SegPrefix, SegOutput, SegV(n), SegFile>>

\* line 44: 'v' in obj['Key']
KeyHasV(key) == \E i \in 1..Len(key) : key[i].hasV

\* line 43: int(obj['Key'].split('/')[-2][1:])
KeyVersion(key) ==
    IF Len(key) < 2 THEN [exc |-> "IndexError", n |-> 0]
    ELSE IF ~key[Len(key) - 1].numeric THEN [exc |-> "ValueError", n |-> 0]
    ELSE [exc |-> "none", n |-> key[Len(key) - 1].rest]

Max(S) == CHOOSE x \in S : \A y \in S : y <= x

\* a numbering that counts the listed versions
NextVersionCount(contents) ==
    LET counted == {key \in contents : KeyHasV(key)} IN
    IF \E key \in counted : KeyVersion(key).exc # "none"
    THEN [exc |-> (CHOOSE e \in {KeyVersion(key).exc : key \in counted} : e # "none"),
          n |-> 0]
    ELSE [exc |-> "none", n |-> Cardinality({KeyVersion(key).n : key \in counted}) + 1]

\* lines 43-45 on the Contents of the listing
NextVersion(contents) ==
    LET counted == {key \in contents : KeyHasV(key)} IN
    IF \E key \in counted : KeyVersion(key).exc # "none"
    THEN [exc |-> (CHOOSE e \in {KeyVersion(key).exc : key \in counted} : e # "none"),
          n |-> 0]
    ELSE IF counted = {} THEN [exc |-> "none", n |-> 1]
    ELSE [exc |-> "none", n |-> Max({KeyVersion(key).n : key \in counted}) + 1]

MaxListed == 3
Listings ==
    SUBSET {OutputKey(n) : n \in 1..MaxListed}
    \cup {{<<SegPrefix, SegOutput, SegEval, SegFile>>}, {<<SegV(1)>>}}

S3ListErrors == {"AccessDenied"}

\* the list_objects_v2 call and the Contents it answered with
ListObjects(contents, exc) ==
    [api |-> "s3.list_objects_v2", contents |-> contents, exc |-> exc]

\* line 41: what list_objects_v2(Bucket=bucket_name, Prefix=s3_prefix) looks at
Location == <<bucket_name, Path(config_json, <<"Training", "Output", "s3_path_prefix">>).v>>

\* the Contents the listing can answer with: what the store holds there, which
\* is fixed the first time the location is listed
Listed(loc) == IF loc \in DOMAIN objects THEN {objects[loc]} ELSE Listings

\* a listing that also reserves the version it computes under the prefix
TrainListReserving ==
    /\ pc = "train_list"
    /\ \/ \E contents \in Listed(Location) :
            LET nv == NextVersion(contents) IN
            /\ calls' = Append(calls, ListObjects(contents, "none"))
            /\ IF nv.exc # "none"
               THEN /\ Return(Raised(nv.exc))
                    /\ objects' = (Location :> contents) @@ objects
                    /\ UNCHANGED next_version
               ELSE /\ next_version' = nv.n
                    /\ objects' = (Location :> (contents \cup {OutputKey(nv.n)})) @@ objects
                    /\ pc' = "train_create_job"
                    /\ result' = result
       \/ \E e \in S3ListErrors :
            /\ calls' = Append(calls, ListObjects({}, e))
            /\ Return(Raised(e))
            /\ UNCHANGED <<next_version, objects>>
    /\ UNCHANGED <<inputs, other, live, version_number, deployment_id, syncLocals, deployLocals>>

\* lines 41-47
TrainList ==
    /\ pc = "train_list"
    /\ \/ \E contents \in Listed(Location) :
            LET nv == NextVersion(contents) IN
            /\ calls' = Append(calls, ListObjects(contents, "none"))
            /\ objects' = (Location :> contents) @@ objects
            /\ IF nv.exc # "none"
               THEN Return(Raised(nv.exc)) /\ UNCHANGED next_version
               ELSE /\ next_version' = nv.n
                    /\ pc' = "train_create_job"
                    /\ result' = result
       \/ \E e \in S3ListErrors :
            /\ calls' = Append(calls, ListObjects({}, e))
            /\ Return(Raised(e))
            /\ UNCHANGED <<next_version, objects>>
    /\ UNCHANGED <<inputs, other, live, version_number, deployment_id, syncLocals, deployLocals>>

\* the exception raised while the request of lines 53-82 is put together
RequestExc(config) ==
    FirstExc(<<Path(config, <<"Training", "JobNamePrefix">>),
               Path(config, <<"Training", "Container", "image">>)>>
             \o [i \in 1..4 |-> Path(config, <<"Training", "Resources",
                    <<"instance_type", "instance_count", "volume_size_gb",
                      "max_runtime_seconds">>[i]>>)]
             \o [i \in 1..8 |-> Path(config, <<"Training", "Parameters",
                    <<"dataset", "device", "num_epochs", "batch_size", "embed_dim",
                      "learning_rate", "save_model_path", "dictionary_path">>[i]>>)])

SageMakerErrors == {"ServiceError"}

JobName(config, n) == [prefix |-> Path(config, <<"Training", "JobNamePrefix">>).v,
                       version |-> n]
OutputUri(config, n) ==
    [bucket |-> bucket_name,
     prefix |-> Path(config, <<"Training", "Output", "s3_path_prefix">>).v,
     version |-> n]

CreateTrainingJob(config, n, exc) ==
    [api |-> "sagemaker.create_training_job", name |-> JobName(config, n),
     output |-> OutputUri(config, n), role_arn |-> role_arn, exc |-> exc]

\* lines 50-92: a RoleArn of None is rejected by the client's parameter validation
TrainCreateJob ==
    /\ pc = "train_create_job"
    /\ IF RequestExc(config_json) # "none"
       THEN Return(Raised(RequestExc(config_json))) /\ UNCHANGED calls
       ELSE IF role_arn.t # "str"
       THEN /\ calls' = Append(calls, CreateTrainingJob(config_json, next_version,
                                                        "ParamValidationError"))
            /\ Return(Raised("ParamValidationError"))
       ELSE \/ /\ calls' = Append(calls, CreateTrainingJob(config_json, next_version, "none"))
               /\ Return([statusCode |-> 200,
                          body |-> [trainingJobName |-> JobName(config_json, next_version),
                                    outputS3Uri |-> OutputUri(config_json, next_version),
                                    version |-> next_version]])
            \/ \E e \in SageMakerErrors :
                 /\ calls' = Append(calls, CreateTrainingJob(config_json, next_version, e))
                 /\ Return(Raised(e))
    /\ UNCHANGED <<inputs, shared, version_number, deployment_id, syncLocals, deployLocals,
                   trainLocals>>

Train == TrainValidate \/ TrainLoad \/ TrainList \/ TrainCreateJob

-----------------------------------------------------------------------------
(* Invocations *)

\* all mappings from a subset of the keys to the values
Mappings(keys, values) == UNION {[K -> values] : K \in SUBSET keys}

EnvValues == {Str("set")}
IdValues == {Str(""), Str("id")}

SyncEnvs == Mappings({"APPLICATION_ID", "ENVIRONMENT_ID", "CONFIGURATION_PROFILE_ID",
                      "DEPLOYMENT_STRATEGY_ID", "CONFIG_BUCKET"}, EnvValues)

SyncEvents ==
    {b @@ k @@ w : b \in Mappings({"bucket"}, IdValues),
                   k \in Mappings({"key"}, {Str("configs/custom.json")}),
                   w \in Mappings({"wait_for_deployment"}, {Bool(TRUE), Bool(FALSE)})}

EmptyEnv == [k \in {} |-> Null]
FullEnv == [k \in {"APPLICATION_ID", "ENVIRONMENT_ID", "CONFIGURATION_PROFILE_ID",
                   "DEPLOYMENT_STRATEGY_ID", "CONFIG_BUCKET"} |-> Str("set")]

DeployEnvs == {EmptyEnv, FullEnv}
DeployEvents == Mappings({"bucket", "key", "application_id", "environment_id",
                          "configuration_profile_id", "deployment_strategy_id"}, IdValues)

FetchEnvs == Mappings({"APPLICATION_ID", "ENVIRONMENT_ID", "CONFIGURATION_PROFILE_ID",
                       "APPLICATIONID"}, EnvValues)
ParameterKeys == {Str(""), Str("name"), Str("modelParameters.training.lr"),
                  Str("name.first")}
PollIntervals == {Num(60), Float(27), Float(-27), Str("2.5"), Str("soon"), Str("inf"),
                  Null, List(<<>>)}
FetchEvents ==
    {ids @@ k @@ i : ids \in Mappings({"ApplicationId", "EnvironmentId",
                                       "ConfigurationProfileId"}, IdValues),
                     k \in Mappings({"ParameterKey"}, ParameterKeys),
                     i \in Mappings({"RequiredMinimumPollIntervalInSeconds"},
                                    PollIntervals)}

TrainEnvs == Mappings({"CONFIG_BUCKET_NAME", "CONFIG_KEY", "SAGEMAKER_ROLE_ARN"}, EnvValues)
TrainEvents ==
    {b @@ k @@ r : b \in Mappings({"bucket_name"}, IdValues),
                   k \in Mappings({"config_key"}, {Str("configs/custom.json")}),
                   r \in Mappings({"role_arn"}, {Str("arn")})}

\* an invocation starts when none is running
CanInvoke == pc \in {"idle", "done"} /\ invocations < MaxInvocations

Invoke(h, ev, en, start) ==
    /\ invocations' = invocations + 1
    /\ handler' = h
    /\ event' = ev
    /\ env' = en
    /\ pc' = start
    /\ result' = NoResult
    /\ calls' = <<>>
    /\ config_json' = Null
    /\ model_config' = Null
    /\ training_config' = Null
    /\ version_number' = 0
    /\ deployment_id' = 0
    /\ status' = "none"
    /\ elapsed' = 0
    /\ config_content' = BadUtf8
    /\ next_version' = 0
    /\ UNCHANGED shared

InvokeSync ==
    /\ CanInvoke
    /\ \E ev \in SyncEvents, en \in SyncEnvs : Invoke("sync", ev, en, "sync_validate")
InvokeDeploy ==
    /\ CanInvoke
    /\ \E ev \in DeployEvents, en \in DeployEnvs :
          Invoke("deploy_config", ev, en, "deploy_validate")
InvokeFetch ==
    /\ CanInvoke
    /\ \E ev \in FetchEvents, en \in FetchEnvs : Invoke("fetch", ev, en, "fetch_validate")
InvokeTrain ==
    /\ CanInvoke
    /\ \E ev \in TrainEvents, en \in TrainEnvs : Invoke("train", ev, en, "train_validate")

\* the store before any location has been listed
NothingListed == [loc \in {} |-> {}]

\* the locals of one invocation
Context(h, ev, en, at, res, log, cj, mc, tc, vn, di, st, el, cc, nv) ==
    [handler |-> h, event |-> ev, env |-> en, pc |-> at, result |-> res, calls |-> log,
     config_json |-> cj, model_config |-> mc, training_config |-> tc,
     version_number |-> vn, deployment_id |-> di, status |-> st, elapsed |-> el,
     config_content |-> cc, next_version |-> nv]

Idle == Context("none", <<>>, <<>>, "idle", NoResult, <<>>, Null, Null, Null, 0, 0,
                "none", 0, BadUtf8, 0)

Init ==
    /\ objects = NothingListed
    /\ other = Idle
    /\ live = NotKnown
    /\ handler = "none"
    /\ event = <<>>
    /\ env = <<>>
    /\ pc = "idle"
    /\ result = NoResult
    /\ calls = <<>>
    /\ config_json = Null
    /\ model_config = Null
    /\ training_config = Null
    /\ version_number = 0
    /\ deployment_id = 0
    /\ status = "none"
    /\ elapsed = 0
    /\ config_content = BadUtf8
    /\ next_version = 0
    /\ invocations = 0

Next == \/ InvokeSync \/ Sync
        \/ InvokeDeploy \/ Deploy
        \/ InvokeFetch \/ Fetch
        \/ InvokeTrain \/ Train

Spec == Init /\ [][Next]_vars

-----------------------------------------------------------------------------
(* Two invocations of the training trigger running at the same time: each has
   its own locals, both use the same object store, and either may take the
   next step *)

\* the other invocation takes over; the one that was stepping is set aside
Switch ==
    /\ other' = Context(handler, event, env, pc, result, calls, config_json,
                        model_config, training_config, version_number, deployment_id,
                        status, elapsed, config_content, next_version)
    /\ handler' = other.handler
    /\ event' = other.event
    /\ env' = other.env
    /\ pc' = other.pc
    /\ result' = other.result
    /\ calls' = other.calls
    /\ config_json' = other.config_json
    /\ model_config' = other.model_config
    /\ training_config' = other.training_config
    /\ version_number' = other.version_number
    /\ deployment_id' = other.deployment_id
    /\ status' = other.status
    /\ elapsed' = other.elapsed
    /\ config_content' = other.config_content
    /\ next_version' = other.next_version
    /\ UNCHANGED <<invocations, objects, live>>

ConcurrentEvents ==
    {b @@ r : b \in Mappings({"bucket_name"}, {Str("id")}),
              r \in Mappings({"role_arn"}, {Str("arn")})}
ConcurrentEnvs == Mappings({"CONFIG_BUCKET_NAME"}, EnvValues)

\* an invocation starts in an execution environment that has not run one
InvokeConcurrent ==
    /\ pc = "idle"
    /\ \E ev \in ConcurrentEvents, en \in ConcurrentEnvs :
          Invoke("train", ev, en, "train_validate")

\* Publishing with sync, then reading with the parameter fetcher, each in its
\* own execution environment
PublisherEvents == Mappings({"wait_for_deployment"}, {Bool(TRUE), Bool(FALSE)})
ReaderEvents ==
    {[ApplicationId |-> Str("id"), EnvironmentId |-> Str("id"),
      ConfigurationProfileId |-> Str("id")] @@ k :
        k \in Mappings({"ParameterKey"}, {Str(""), Str("name")})}

InvokePublisher ==
    /\ pc = "idle"
    /\ invocations = 0
    /\ \E ev \in PublisherEvents : Invoke("sync", ev, FullEnv, "sync_validate")

InvokeReader ==
    /\ pc = "idle"
    /\ other.pc = "done"
    /\ \E ev \in ReaderEvents : Invoke("fetch", ev, EmptyEnv, "fetch_validate")

RoundTripNext == InvokePublisher \/ Sync \/ Switch \/ InvokeReader \/ Fetch

RoundTripSpec == Init /\ [][RoundTripNext]_vars

\* the create_training_job calls of a call log
JobsSubmitted(log) ==
    {log[i] : i \in {j \in 1..Len(log) : log[j].api = "sagemaker.create_training_job"}}

\* One invocation of the training trigger after another, while training jobs
\* write their outputs under the prefix and outputs are cleaned up
SetAside ==
    /\ pc = "done"
    /\ other = Idle
    /\ Switch

\* a submitted training job writes its model under its S3OutputPath,
\* s3://<bucket>/<s3_path_prefix>/v<N>/
OutputAppears ==
    /\ \E job \in JobsSubmitted(calls) \cup JobsSubmitted(other.calls) :
          LET loc == <<job.output.bucket, job.output.prefix>> IN
          /\ job.exc = "none"
          /\ loc \in DOMAIN objects
          /\ OutputKey(job.output.version) \notin objects[loc]
          /\ objects' = [objects EXCEPT ![loc] = @ \cup {OutputKey(job.output.version)}]
    /\ UNCHANGED <<inputs, other, live, pc, result, calls, version_number, deployment_id,
                   syncLocals, deployLocals, trainLocals>>

\* somebody deletes an object under the prefix between the two invocations
OutputRemoved ==
    /\ other.pc = "done"
    /\ pc = "idle"
    /\ \E loc \in DOMAIN objects :
          \E key \in objects[loc] : objects' = [objects EXCEPT ![loc] = @ \ {key}]
    /\ UNCHANGED <<inputs, other, live, pc, result, calls, version_number, deployment_id,
                   syncLocals, deployLocals, trainLocals>>

SuccessiveNext == InvokeConcurrent \/ Train \/ SetAside \/ OutputAppears \/ OutputRemoved

SuccessiveSpec == Init /\ [][SuccessiveNext]_vars

ConcurrentNext == InvokeConcurrent \/ Train \/ Switch

ConcurrentSpec == Init /\ [][ConcurrentNext]_vars

-----------------------------------------------------------------------------
(* Properties *)

CallsOf(api) == {i \in 1..Len(calls) : calls[i].api = api}
StatusCalls == Cardinality(CallsOf("appconfig.get_deployment"))
Sleeps == Cardinality(CallsOf("time.sleep"))
LastCall == calls[Len(calls)]
Finished == pc = "done"

\* C1: with wait_for_deployment true the sync handler makes at most 300/10 = 30
\* status calls, sleeps 10 seconds after each non-terminal one, and once a status
\* call has returned COMPLETE, FAILED or ROLLED_BACK that call stays the last
\* call of the invocation.
C1_PollingBounded ==
    handler = "sync" =>
        /\ StatusCalls <= 30
        /\ StatusCalls > 0 => Truthy(wait_for_deployment)
        /\ Sleeps <= StatusCalls
        /\ elapsed >= 10 * Sleeps
        /\ status \in TerminalStates =>
              /\ pc \in {"sync_return", "done"}
              /\ LastCall.api = "appconfig.get_deployment"

C1_Witness ==
    /\ handler = "sync"
    /\ StatusCalls = 30
    /\ status = "COMPLETE"
    /\ Finished

\* C2: the status call that returns FAILED or ROLLED_BACK ends the invocation at
\* once with a 500 result naming that status; it stays the last call (no status
\* call and no sleep after it) and no 200 result is returned.
C2_FailedStopsAtOnce ==
    (handler = "sync" /\ status \in {"FAILED", "ROLLED_BACK"}) =>
        /\ Finished
        /\ result.statusCode = 500
        /\ result.body = [msg |-> "Deployment failed with status", status |-> status]
        /\ LastCall = GetDeployment(deployment_id, "none")
        /\ Sleeps = StatusCalls - 1

C2_Witness ==
    /\ handler = "sync"
    /\ status = "ROLLED_BACK"
    /\ StatusCalls = 3
    /\ result.statusCode = 500

\* C3: when the wait loop is left because the ceiling was reached, every status
\* observed having been non-terminal, no timeout error is raised: for a document
\* that is a JSON object the result is the 200 result with versionNumber,
\* deploymentNumber and configKeys, as after COMPLETE.
C3_TimeoutReturns200 ==
    (handler = "sync" /\ Finished /\ status \in NonTerminalStates
        /\ LastCall.api = "time.sleep") =>
        /\ elapsed >= max_wait_time
        /\ config_json.t = "obj" =>
              result = [statusCode |-> 200,
                        body |-> [versionNumber |-> version_number,
                                  deploymentNumber |-> deployment_id,
                                  configKeys |-> DOMAIN config_json.o]]
        /\ config_json.t # "obj" => result = Uncaught("AttributeError")

C3_Witness ==
    /\ handler = "sync"
    /\ Finished
    /\ status \in NonTerminalStates
    /\ LastCall.api = "time.sleep"
    /\ elapsed >= max_wait_time
    /\ result.statusCode = 200
    /\ StatusCalls < 30

StageOf(call) ==
    CASE call.api = "s3.get_object" -> 1
      [] call.api = "appconfig.create_hosted_configuration_version" -> 2
      [] call.api = "appconfig.start_deployment" -> 3
      [] call.api \in {"appconfig.get_deployment", "time.sleep"} -> 4

\* the primary key reported absent, which the sync handler answers with the fallback
PrimaryAbsent(i) == handler = "sync" /\ i = 1 /\ calls[1].exc = NoSuchKey

\* C4: sync (and deploy_config, which has no watch stage) call the stages in the
\* order load, publish, trigger, watch, starting with the load and skipping none;
\* a stage is entered only after the last call of the stage before it succeeded,
\* and a failed call is the last call of the invocation, which ends with a 500.
C4_StagesInOrder ==
    handler \in {"sync", "deploy_config"} =>
        /\ calls # <<>> => StageOf(calls[1]) = 1
        /\ \A i \in 1..(Len(calls) - 1) :
              /\ StageOf(calls[i + 1]) \in {StageOf(calls[i]), StageOf(calls[i]) + 1}
              /\ StageOf(calls[i + 1]) > StageOf(calls[i]) => calls[i].exc = "none"
        /\ \A i \in 1..Len(calls) :
              (calls[i].exc # "none" /\ ~PrimaryAbsent(i)) =>
                  /\ i = Len(calls)
                  /\ Finished
                  /\ result.statusCode = 500
        /\ result.statusCode = 200 =>
              /\ {StageOf(calls[i]) : i \in 1..Len(calls)} \in {{1, 2, 3}, {1, 2, 3, 4}}
              /\ \A i \in 1..Len(calls) : calls[i].exc = "none" \/ PrimaryAbsent(i)

C4_Witness ==
    /\ handler = "sync"
    /\ Finished
    /\ Len(calls) = 5
    /\ LastCall.api = "appconfig.start_deployment"
    /\ LastCall.exc # "none"
    /\ result.statusCode = 500

Range(seq) == {seq[i] : i \in 1..Len(seq)}
Blank(v) == v = Null \/ v = Str("")

DeployBlank == {p \in {"bucket", "key", "application_id", "environment_id",
                       "configuration_profile_id", "deployment_strategy_id"} :
                  p \notin DOMAIN event \/ Blank(event[p])}

SyncBlank ==
    {n \in {"APPLICATION_ID", "ENVIRONMENT_ID", "CONFIGURATION_PROFILE_ID",
            "DEPLOYMENT_STRATEGY_ID"} : n \notin DOMAIN env \/ Blank(env[n])}
    \cup (IF "bucket" \in DOMAIN event
          THEN (IF Blank(event["bucket"]) THEN {"bucket/CONFIG_BUCKET"} ELSE {})
          ELSE (IF "CONFIG_BUCKET" \notin DOMAIN env \/ Blank(env["CONFIG_BUCKET"])
                THEN {"bucket/CONFIG_BUCKET"} ELSE {}))

Rejected(missing) ==
    /\ Finished
    /\ result.statusCode = 400
    /\ Range(result.body.missing) = missing
    /\ Len(result.body.missing) = Cardinality(missing)
    /\ calls = <<>>

\* C5: deploy_config and sync answer a missing or empty required parameter with a
\* 400 whose body lists exactly the missing parameters, each once, having made no
\* external call; and they answer 400 in no other case.
C5_MissingListedExactly ==
    /\ (handler = "deploy_config" /\ pc # "deploy_validate") =>
          IF DeployBlank # {} THEN Rejected(DeployBlank) ELSE result.statusCode # 400
    /\ (handler = "sync" /\ pc # "sync_validate") =>
          IF SyncBlank # {} THEN Rejected(SyncBlank) ELSE result.statusCode # 400

C5_Witness ==
    /\ handler = "sync"
    /\ result.statusCode = 400
    /\ Range(result.body.missing) = {"ENVIRONMENT_ID", "bucket/CONFIG_BUCKET"}
    /\ "CONFIG_BUCKET" \in DOMAIN env

\* the parameters supplied neither by the event nor by their environment variable
FetchUnsupplied ==
    {p \in Range(FetchRequired) :
        /\ p \notin DOMAIN event \/ Blank(event[p])
        /\ EnvName(p) \notin DOMAIN env \/ Blank(env[EnvName(p)])}

\* C6: when a parameter of the fetcher is supplied by neither source, the result
\* is a 400 listing exactly the parameters missing from both sources, and the
\* distribution service is not called.
C6_FetchMissingListedExactly ==
    (handler = "fetch" /\ pc # "fetch_validate" /\ FetchUnsupplied # {}
        /\ PollInterval.exc = "none") =>
        Rejected(FetchUnsupplied)

\* a key of the event that is present and non-empty, or absent with its
\* environment variable set
Supplied(p, name) ==
    IF p \in DOMAIN event THEN ~Blank(event[p])
    ELSE name \in DOMAIN env /\ ~Blank(env[name])

DeployEnvName(p) ==
    CASE p = "application_id" -> "APPLICATION_ID"
      [] p = "environment_id" -> "ENVIRONMENT_ID"
      [] p = "configuration_profile_id" -> "CONFIGURATION_PROFILE_ID"
      [] p = "deployment_strategy_id" -> "DEPLOYMENT_STRATEGY_ID"
      [] p = "bucket" -> "CONFIG_BUCKET"
      [] OTHER -> "-"

DeployIds == {"application_id", "environment_id", "configuration_profile_id",
              "deployment_strategy_id"}

NoRoleArn == "role_arn" \notin DOMAIN event /\ "SAGEMAKER_ROLE_ARN" \notin DOMAIN env

\* the fallbacks that sync, the fetcher and the training trigger do implement
FallbackThenValidation ==
    /\ (handler = "sync" /\ pc # "sync_validate"
          /\ \A n \in {"APPLICATION_ID", "ENVIRONMENT_ID", "CONFIGURATION_PROFILE_ID",
                       "DEPLOYMENT_STRATEGY_ID"} : n \in DOMAIN env) =>
          IF Supplied("bucket", "CONFIG_BUCKET")
          THEN result.statusCode # 400
          ELSE Finished /\ result.statusCode = 400 /\ calls = <<>>
    /\ (handler = "fetch" /\ pc # "fetch_validate") =>
          IF \A p \in Range(FetchRequired) : Supplied(p, EnvName(p))
          THEN result.statusCode # 400
          ELSE /\ Finished
               /\ calls = <<>>
               /\ result.statusCode = 400 \/ result = Uncaught(PollInterval.exc)
    /\ (handler = "train" /\ pc # "train_validate") =>
          IF Supplied("bucket_name", "CONFIG_BUCKET_NAME")
          THEN ~(Finished /\ calls = <<>>)
          ELSE Finished /\ result = Raised("ValueError") /\ calls = <<>>

\* C7 as stated: every entry point falls back from the event to the environment
\* and fails validation, before any external call, only when a key is in neither;
\* so deploy_config accepts an event without its ids when the variables are set,
\* and the training trigger without any role_arn fails before the object store
\* is called.
C7_FallbackEverywhere ==
    /\ FallbackThenValidation
    /\ (handler = "deploy_config" /\ pc # "deploy_validate"
          /\ Supplied("bucket", "-") /\ Supplied("key", "-")
          /\ \A p \in DeployIds : Supplied(p, DeployEnvName(p))) =>
          result.statusCode # 400
    /\ (handler = "train" /\ pc # "train_validate" /\ NoRoleArn) =>
          Finished /\ calls = <<>>

\* C7 amended: sync (bucket), the fetcher (its three ids) and the training trigger
\* (bucket_name) fall back to the environment and fail validation before any call
\* when the key is in neither; deploy_config reads the event only and answers 400
\* for a key missing there whatever the environment holds; the training trigger
\* does not validate role_arn and has read the object store by the time
\* create_training_job rejects the missing role.
C7_FallbackWhereImplemented ==
    /\ FallbackThenValidation
    /\ (handler = "deploy_config" /\ pc # "deploy_validate") =>
          IF \A p \in DeployIds \cup {"bucket", "key"} : Supplied(p, "-")
          THEN result.statusCode # 400
          ELSE Finished /\ result.statusCode = 400 /\ calls = <<>>
    /\ (handler = "train" /\ Finished /\ NoRoleArn
          /\ Supplied("bucket_name", "CONFIG_BUCKET_NAME")) =>
          /\ calls[1].api = "s3.get_object"
          /\ result.statusCode # 200
          /\ LastCall.api = "sagemaker.create_training_job" =>
                /\ result = Raised("ParamValidationError")
                /\ Len(calls) = 3

C7_Witness ==
    /\ handler = "train"
    /\ NoRoleArn
    /\ "bucket_name" \notin DOMAIN event
    /\ result = Raised("ParamValidationError")
    /\ Len(calls) = 3

\* the Training section of a training document, as a function ({} when absent)
TrainingKeys(doc) ==
    IF doc.t = "obj" /\ "Training" \in DOMAIN doc.o /\ doc.o["Training"].t = "obj"
    THEN DOMAIN doc.o["Training"].o ELSE {}

HasTrainingObject(doc) ==
    /\ doc.t = "obj"
    /\ "modelParameters" \in DOMAIN doc.o
    /\ doc.o["modelParameters"].t = "obj"
    /\ "training" \in DOMAIN doc.o["modelParameters"].o
    /\ doc.o["modelParameters"].o["training"].t = "obj"

\* the primary key was absent and both fallback documents were loaded and merged
FallbackMerged == handler = "sync" /\ pc = "sync_publish" /\ Len(calls) = 3

TrainingWins(doc, tdoc) ==
    \A k \in TrainingKeys(tdoc) :
        /\ k \in DOMAIN doc.o["modelParameters"].o["training"].o
        /\ doc.o["modelParameters"].o["training"].o[k] = tdoc.o["Training"].o[k]

\* what the sync handler publishes is config_json
PublishesConfigJson ==
    handler = "sync" =>
        \A i \in CallsOf("appconfig.create_hosted_configuration_version") :
            calls[i].content = JsonText(config_json)

C9_FallbackFailureIsMergeError ==
    handler = "sync" =>
        \A i \in 2..Len(calls) :
            (calls[i].api = "s3.get_object" /\ calls[i].exc # "none") =>
                /\ i = Len(calls)
                /\ Finished
                /\ result = [statusCode |-> 500,
                             body |-> [msg |-> "Error merging configurations",
                                       cause |-> calls[i].exc]]
                /\ CallsOf("appconfig.create_hosted_configuration_version") = {}
                /\ CallsOf("appconfig.start_deployment") = {}

C9_Witness ==
    /\ handler = "sync"
    /\ Finished
    /\ Len(calls) = 3
    /\ calls[3].exc = "JSONDecodeError"
    /\ result.statusCode = 500

\* C10: the fallback keys are read only after the primary load failed with
\* NoSuchKey; any other failure of the primary load is the only call of the
\* invocation, which ends with a 500.
C10_FallbackOnlyOnNoSuchKey ==
    (handler = "sync" /\ calls # <<>>) =>
        /\ calls[1].exc \notin {"none", NoSuchKey} =>
              /\ Len(calls) = 1
              /\ Finished
              /\ result.statusCode = 500
        /\ (\E i \in 2..Len(calls) : calls[i].api = "s3.get_object") =>
              calls[1].exc = NoSuchKey

C10_Witness ==
    /\ handler = "sync"
    /\ Finished
    /\ Len(calls) = 1
    /\ calls[1].exc = "AccessDenied"
    /\ result.statusCode = 500

-----------------------------------------------------------------------------
(* The parameter fetcher's lookup *)

\* the fetcher retrieved the configuration and decoded it as a JSON object
FetchDecoded ==
    /\ handler = "fetch"
    /\ Finished
    /\ Len(calls) = 2
    /\ LastCall.api = "appconfig.get_configuration"
    /\ LastCall.exc = "none"
    /\ Loads(LastCall.content.text).t = "obj"

\* the document the distribution service answered with
FetchedDocument == Loads(LastCall.content.text)

\* the value at a path of a document: present when every segment is a key of the
\* mapping reached so far
RECURSIVE ValueAt(_, _)
ValueAt(doc, keys) ==
    IF keys = <<>> THEN [present |-> TRUE, v |-> doc]
    ELSE IF doc.t = "obj" /\ keys[1] \in DOMAIN doc.o
    THEN ValueAt(doc.o[keys[1]], Tail(keys))
    ELSE [present |-> FALSE, v |-> Null]

DottedKey ==
    /\ "ParameterKey" \in DOMAIN event
    /\ Len(Split(event["ParameterKey"].s)) > 1

\* C11: for every decoded document and every dot-separated parameter key, the
\* fetcher returns 200 with ParameterValue equal to the value at the path when
\* every segment is present, and a 404 naming the full key when a segment is absent.
C11_DotPathLookup ==
    (FetchDecoded /\ DottedKey) =>
        LET k == event["ParameterKey"].s
            at == ValueAt(FetchedDocument, Split(k))
        IN  IF at.present
            THEN result = [statusCode |-> 200, ParameterValue |-> at.v]
            ELSE result.statusCode = 404 /\ result.body.parameter_key = k

\* C12: with no parameter key (absent or empty) and the configuration retrieved
\* and decoded, the fetcher returns 200 with Configuration equal to the whole
\* decoded document.
C12_WholeDocument ==
    (FetchDecoded /\ ~Truthy(EventGet("ParameterKey"))) =>
        result = [statusCode |-> 200, Configuration |-> FetchedDocument]

C12_Witness ==
    /\ FetchDecoded
    /\ "ParameterKey" \in DOMAIN event
    /\ event["ParameterKey"] = Str("")
    /\ FetchedDocument = GoodBase
    /\ result = [statusCode |-> 200, Configuration |-> GoodBase]

-----------------------------------------------------------------------------
(* The training trigger's output version *)

\* the invocation has computed its output version
VersionComputed == handler = "train" /\ next_version # 0

\* the versions N that have an object <prefix>/vN/<file> among the listed keys
VersionsIn(contents) ==
    {key[Len(key) - 1].rest :
        key \in {k \in contents : Len(k) >= 2 /\ k[Len(k) - 1].numeric}}

\* C13: the next output version is 1 for an empty listing and max(existing) + 1
\* otherwise, so it is greater than every listed version, and the same version
\* is in the training job name and in the output path.
C13_NextVersion ==
    VersionComputed =>
        LET existing == VersionsIn(objects[Location]) IN
        /\ objects[Location] = {} => next_version = 1
        /\ existing # {} => (next_version - 1) \in existing
        /\ \A v \in existing : next_version > v
        /\ \A job \in JobsSubmitted(calls) :
              job.name.version = next_version /\ job.output.version = next_version
        /\ result.statusCode = 200 =>
              /\ result.body.version = next_version
              /\ result.body.trainingJobName.version = next_version
              /\ result.body.outputS3Uri.version = next_version

C13_Witness ==
    /\ VersionComputed
    /\ Finished
    /\ objects[Location] = {OutputKey(1), OutputKey(3)}
    /\ result.statusCode = 200
    /\ result.body.version = 4
    /\ LastCall.name.version = 4
    /\ LastCall.output.version = 4

\* bucket and prefix an invocation with these inputs lists
LocationOf(ev, en, config) ==
    <<Get(ev, "bucket_name", EnvGet(en, "CONFIG_BUCKET_NAME")),
      Path(config, <<"Training", "Output", "s3_path_prefix">>).v>>

\* two invocations of the training trigger have both listed the same bucket and prefix
BothListed ==
    /\ VersionComputed
    /\ other.handler = "train"
    /\ other.next_version # 0
    /\ LocationOf(event, env, config_json)
          = LocationOf(other.event, other.env, other.config_json)

\* C14: nothing serialises two concurrent invocations of the training trigger:
\* having listed the same bucket and prefix they hold the same next version, and
\* the training jobs they submit have the same job name and output path.
C14_NoGuard ==
    BothListed =>
        /\ next_version = other.next_version
        /\ \A mine \in JobsSubmitted(calls), theirs \in JobsSubmitted(other.calls) :
              mine.name = theirs.name /\ mine.output = theirs.output

\* one invocation has submitted its job while the other, which listed before
\* that, is about to submit a job of the same name and output path
C14_Witness ==
    /\ BothListed
    /\ Finished
    /\ result.statusCode = 200
    /\ other.pc = "train_create_job"
    /\ other.calls[Len(other.calls)].api = "s3.list_objects_v2"
    /\ RequestExc(other.config_json) = "none"
    /\ LastCall.name = JobName(other.config_json, other.next_version)
    /\ LastCall.output.version = other.next_version

-----------------------------------------------------------------------------
(* Publish, then fetch *)

\* the sync invocation set aside loaded a JSON object from the primary key,
\* published it and saw its deployment complete
PublishedPrimary ==
    /\ other.handler = "sync"
    /\ other.pc = "done"
    /\ other.calls[1].exc = "none"
    /\ other.config_json.t = "obj"
    /\ other.status = "COMPLETE"

\* the fetcher, called without a parameter key, retrieved the configuration
FetchedWhole ==
    /\ handler = "fetch"
    /\ Finished
    /\ Len(calls) = 2
    /\ LastCall.api = "appconfig.get_configuration"
    /\ LastCall.exc \notin AppConfigErrors
    /\ ~Truthy(EventGet("ParameterKey"))

\* C15: for every JSON document D under the primary key, once sync has published
\* D and the version is deployed, the fetcher called with no parameter key
\* returns a document equal to D.
C15_RoundTrip ==
    (PublishedPrimary /\ FetchedWhole) =>
        result = [statusCode |-> 200, Configuration |-> other.config_json]

C15_Witness ==
    /\ PublishedPrimary
    /\ FetchedWhole
    /\ other.config_json = GoodBase
    /\ other.result.statusCode = 200
    /\ result = [statusCode |-> 200, Configuration |-> GoodBase]

-----------------------------------------------------------------------------
(* What leaves a handler *)

StatusCodes == {200, 400, 404, 500}

\* the last external call of the invocation failed
LastCallFailed == calls # <<>> /\ LastCall.exc # "none"

\* C16 as stated: in every entry point a failure is caught at the top level, so
\* every invocation returns a mapping whose statusCode is 200, 400, 404 or 500.
C16_AllCaught ==
    Finished => result.statusCode \in StatusCodes

\* C16: deploy_config, sync and the parameter fetcher return a mapping whose
\* statusCode is 200, 400, 404 or 500, and a failed external call or decoding
\* ends in a 500 carrying the cause; the training trigger returns a 200 mapping
\* or lets the exception leave the handler.
C16_CaughtExceptInTrain ==
    Finished =>
        IF handler = "train"
        THEN /\ result.statusCode = 200 \/ "raised" \in DOMAIN result
             /\ LastCallFailed => result = Raised(LastCall.exc)
        ELSE /\ result.statusCode \in StatusCodes
             /\ LastCallFailed =>
                   result.statusCode = 500 /\ result.body.cause = LastCall.exc

C16_Witness ==
    /\ handler = "fetch"
    /\ Finished
    /\ LastCallFailed
    /\ LastCall.api = "appconfig.get_configuration"
    /\ LastCall.exc = "JSONDecodeError"
    /\ result = Uncaught("JSONDecodeError")

-----------------------------------------------------------------------------
(* Calls to the distribution service *)

Publishes == CallsOf("appconfig.create_hosted_configuration_version")
Deployments == CallsOf("appconfig.start_deployment")

\* C17: in one invocation of sync or deploy_config the publish call and the
\* start-deployment call are each made at most once, and a failed publish call
\* is the last call: it ends the invocation with statusCode 500 carrying the
\* cause and no deployment is started.
C17_NoRetry ==
    handler \in {"sync", "deploy_config"} =>
        /\ Cardinality(Publishes) <= 1
        /\ Cardinality(Deployments) <= 1
        /\ \A i \in Publishes :
              calls[i].exc # "none" =>
                 /\ i = Len(calls)
                 /\ Deployments = {}
                 /\ Finished
                 /\ result = Uncaught(calls[i].exc)

C17_Witness ==
    /\ handler = "sync"
    /\ Finished
    /\ LastCallFailed
    /\ LastCall.api = "appconfig.create_hosted_configuration_version"
    /\ Deployments = {}
    /\ result.statusCode = 500

-----------------------------------------------------------------------------
(* The optional watcher *)

\* start_deployment of this sync invocation succeeded
DeploymentStarted ==
    /\ handler = "sync"
    /\ \E i \in Deployments : calls[i].exc = "none"

NoWait == "wait_for_deployment" \in DOMAIN event /\ event["wait_for_deployment"] = Bool(FALSE)
FlagAbsent == "wait_for_deployment" \notin DOMAIN event

\* C18: with wait_for_deployment false the sync handler makes no status call and
\* returns the 200 result straight after start_deployment succeeds; with the
\* flag absent the status is polled.
C18_WatcherOptional ==
    DeploymentStarted =>
        /\ NoWait =>
              /\ StatusCalls = 0
              /\ Sleeps = 0
              /\ LastCall.api = "appconfig.start_deployment"
              /\ pc \in {"sync_return", "done"}
              /\ (Finished /\ config_json.t = "obj") => result.statusCode = 200
        /\ FlagAbsent =>
              /\ StatusCalls = 0 => pc \in {"sync_loop", "sync_get_deployment"}
              /\ Finished => StatusCalls >= 1

C18_Witness ==
    /\ DeploymentStarted
    /\ NoWait
    /\ Finished
    /\ StatusCalls = 0
    /\ result.statusCode = 200

-----------------------------------------------------------------------------
(* Version and deployment numbers *)

Succeeded(S) == {i \in S : calls[i].exc = "none"}

\* C19: a 200 result of the sync handler carries the version number its publish
\* call returned, the deployment number its start-deployment call returned, and
\* configKeys equal to the top-level keys of the document that was published.
C19_ResultContents ==
    (handler = "sync" /\ Finished /\ result.statusCode = 200) =>
        /\ Cardinality(Succeeded(Publishes)) = 1
        /\ Cardinality(Succeeded(Deployments)) = 1
        /\ \A i \in Succeeded(Publishes) :
              /\ result.body.versionNumber = calls[i].returned
              /\ result.body.configKeys = DOMAIN Loads(calls[i].content.text).o
        /\ \A j \in Succeeded(Deployments) :
              result.body.deploymentNumber = calls[j].returned

C19_Witness ==
    /\ handler = "sync"
    /\ Finished
    /\ result.statusCode = 200
    /\ calls[1].exc = NoSuchKey
    /\ result.body.versionNumber = 2
    /\ result.body.deploymentNumber = 1
    /\ result.body.configKeys = {"modelParameters", "name"}

\* C20: in sync and deploy_config the version passed to start_deployment is the
\* one the publish call of the same invocation returned, and the deployment
\* polled by get_deployment is the one that start_deployment call returned.
C20_NumbersPassedOn ==
    handler \in {"sync", "deploy_config"} =>
        /\ \A j \in Deployments :
              \E i \in Succeeded(Publishes) :
                 i < j /\ calls[j].version = PyStr(calls[i].returned)
        /\ \A k \in CallsOf("appconfig.get_deployment") :
              \E j \in Succeeded(Deployments) :
                 j < k /\ calls[k].deployment = calls[j].returned

C20_Witness ==
    /\ handler = "sync"
    /\ StatusCalls >= 2
    /\ \E i \in Succeeded(Publishes) : calls[i].returned = 1
    /\ \E j \in Deployments : calls[j].version = PyStr(1) /\ calls[j].returned = 1
    /\ LastCall.api = "appconfig.get_deployment"
    /\ LastCall.deployment = 1

-----------------------------------------------------------------------------
(* When the watcher lets a success through *)

\* a sync invocation that waits for its deployment has returned statusCode 200
WaitedAndSucceeded ==
    /\ handler = "sync"
    /\ Truthy(wait_for_deployment)
    /\ Finished
    /\ result.statusCode = 200

\* C21: with wait_for_deployment true the sync handler returns 200 only after at
\* least one status call, and only if the last status seen was COMPLETE or the
\* 300 seconds had passed; never after a status call saw FAILED or ROLLED_BACK.
C21_SuccessOnlyWhenCompleteOrTimedOut ==
    WaitedAndSucceeded =>
        /\ StatusCalls >= 1
        /\ status = "COMPLETE" \/ elapsed >= max_wait_time
        /\ status \notin {"FAILED", "ROLLED_BACK"}

C21_Witness ==
    /\ WaitedAndSucceeded
    /\ StatusCalls = 3
    /\ Sleeps = 2
    /\ status = "COMPLETE"
    /\ elapsed < max_wait_time

-----------------------------------------------------------------------------
(* The lookup on any JSON object *)

\* C22: once the configuration is decoded as a JSON object, the lookup of a
\* parameter key ends in statusCode 200 or 404 for every document and key; a
\* dot-path through a value that is not a mapping is a 404, not a 500.
C22_LookupNeverFails ==
    (FetchDecoded /\ Truthy(EventGet("ParameterKey"))) =>
        result.statusCode \in {200, 404}

-----------------------------------------------------------------------------
(* The poll interval *)

IntervalKey == "RequiredMinimumPollIntervalInSeconds"

\* a number, or a string that is the decimal text of one
Numeric(x) == x.t \in {"num", "float"} \/ (x.t = "str" /\ x.s \in {"45", "2.5"})

\* the integer part of a numeric value
Truncated(x) ==
    CASE x = Str("45")  -> 45
      [] x = Str("2.5") -> 2
      [] x.t = "num"    -> x.n
      [] x.t = "float"  -> IF x.tenths >= 0 THEN x.tenths \div 10
                                            ELSE -((-x.tenths) \div 10)

ExpectedInterval ==
    IF IntervalKey \notin DOMAIN event THEN 30
    ELSE IF Numeric(event[IntervalKey]) THEN Truncated(event[IntervalKey])
    ELSE 30

\* C23: the poll interval passed to start_configuration_session is 30 when the
\* event has none, the integer truncation of a numeric value, and 30 for a value
\* that cannot be converted; such a value never makes the request fail.
C23_PollInterval ==
    (handler = "fetch" /\ pc # "fetch_validate") =>
        /\ \A i \in CallsOf("appconfig.start_configuration_session") :
              calls[i].poll_interval = ExpectedInterval
        /\ (IntervalKey \in DOMAIN event /\ ~Numeric(event[IntervalKey])) =>
              ~(Finished /\ calls = <<>> /\ result.statusCode = 500)

-----------------------------------------------------------------------------
(* Successive invocations of the training trigger *)

\* the Contents an invocation listed, from its call log
ListedBy(log) ==
    {log[i].contents :
        i \in {j \in 1..Len(log) : log[j].api = "s3.list_objects_v2" /\ log[j].exc = "none"}}

\* an invocation has finished and a later one has computed its version for the
\* same bucket and prefix
Successive ==
    /\ VersionComputed
    /\ other.handler = "train"
    /\ other.pc = "done"
    /\ other.next_version # 0
    /\ LocationOf(event, env, config_json)
          = LocationOf(other.event, other.env, other.config_json)

\* a step of the handler leaves the store as it found it
TrainWritesNothing ==
    Train =>
        /\ \A loc \in DOMAIN objects : loc \in DOMAIN objects' /\ objects'[loc] = objects[loc]
        /\ \A loc \in DOMAIN objects' \ DOMAIN objects : objects'[loc] \in ListedBy(calls')

SameOrLaterVersion ==
    Successive =>
        \A first \in ListedBy(other.calls), second \in ListedBy(calls) :
            /\ first = second =>
                  /\ next_version = other.next_version
                  /\ \A mine \in JobsSubmitted(calls), theirs \in JobsSubmitted(other.calls) :
                        mine.name = theirs.name
            /\ first \subseteq second => next_version >= other.next_version

\* C24: the training trigger writes nothing to the object store, so two successive
\* invocations with no object added under the prefix between them compute the
\* same next version and submit the same job name, and the versions of
\* successive invocations never decrease while no listed output is deleted.
C24_VersionAdvancesWithOutputsOnly ==
    [][TrainWritesNothing]_vars /\ []SameOrLaterVersion

C24_Witness ==
    /\ Successive
    /\ Finished
    /\ result.statusCode = 200
    /\ other.result.statusCode = 200
    /\ ListedBy(calls) = ListedBy(other.calls)
    /\ ListedBy(calls) = {{OutputKey(1), OutputKey(2)}}
    /\ next_version = 3
    /\ other.next_version = 3
    /\ LastCall.name = other.calls[Len(other.calls)].name

====
